---- MODULE Spec2Model ----
(***************************************************************************)
(* TaskManager API (src/server.js): an Express process in front of a MySQL *)
(* store with two tables, users and tasks.                                 *)
(*                                                                         *)
(* The store is modelled by what the DDL of initDatabase declares          *)
(* (AUTO_INCREMENT keys, NOT NULL, UNIQUE, VARCHAR lengths, ENUM, FOREIGN  *)
(* KEY, TIMESTAMP defaults) under MySQL's default strict SQL mode, in      *)
(* which a value a column cannot hold fails the statement; strings are     *)
(* taken within the length of their columns.  Every handler                *)
(* awaits exactly one autocommit statement, which the store executes       *)
(* atomically; a statement that fails leaves the tables as they were.      *)
(* TIMESTAMP columns hold whole seconds: `now` is the store's clock.       *)
(***************************************************************************)
EXTENDS Integers, Sequences, FiniteSets, TLC

\* ------------------------------------------------------------------ bounds
MaxTasks == 1     \* task ids the store hands out in a run
MaxClock == 1     \* seconds the store's clock advances in a run

\* ------------------------------------------------------------ input values
NULL     == "<NULL>"       \* SQL NULL; mysql2 sends a JS undefined as NULL
Bogus    == "bogus"        \* a status outside the ENUM

StatusEnum == {"pending", "in_progress", "completed"}

\* the statuses requests carry ('in_progress' is to the store what 'completed'
\* is: a member of the ENUM)
StatusInputs == {"pending", "completed", Bogus}

Names        == {"n1"}
Emails       == {"e1", "e2"}
Titles       == {"t1"}
Descriptions == {"d1"}

Clients == {"c1", "c2"}    \* HTTP connections that can hold a request open

EmptyObj == [k \in {} |-> NULL]

\* the JS objects {} and {k: v} for v in S
Opt(k, S) == {EmptyObj} \cup {k :> v : v \in S}

\* e.key of a JS object, undefined (sent to the store as NULL) when absent
Str(body, k) == IF k \in DOMAIN body THEN body[k] ELSE NULL

UserIdInputs == 1 .. (Cardinality(Emails) + 1)
PathIds      == 1 .. (MaxTasks + 1)
ClientIds    == {MaxTasks + 1}

UserBodies ==
  { a @@ b : a \in Opt("name", Names),
             b \in Opt("email", Emails) }

TaskBodies ==
  { i @@ u @@ t @@ d @@ s :
      i \in Opt("id", ClientIds),
      u \in Opt("user_id", UserIdInputs),
      t \in Opt("title", Titles),
      d \in Opt("description", Descriptions),
      s \in Opt("status", StatusInputs) }

UpdateBodies ==
  { t @@ d @@ s :
      t \in Opt("title", Titles),
      d \in Opt("description", Descriptions),
      s \in Opt("status", StatusInputs) }

\* ------------------------------------------------------------------- state
VARIABLES
  pc,          \* where the start-up chain of lines 199-206 stands
  schema,      \* the tables that exist in the store
  users,       \* rows of table users
  tasks,       \* rows of table tasks
  nextUserId,  \* AUTO_INCREMENT counter of users
  nextTaskId,  \* AUTO_INCREMENT counter of tasks
  now,         \* CURRENT_TIMESTAMP of the store, in seconds
  sent,        \* the responses sent to the client that it has not read yet
  conn         \* per client connection: the request it holds open

vars == <<pc, schema, users, tasks, nextUserId, nextTaskId, now, sent, conn>>

\* ------------------------------------------------------- the store (MySQL)
\* what a statement gives back: error = "" when it succeeded, the tables and
\* counters as it leaves them, and the generated key of an INSERT
Ok(u, t, nu, nt, iid) ==
  [error |-> "", insertId |-> iid, users |-> u, tasks |-> t,
   nextUserId |-> nu, nextTaskId |-> nt]

\* a failed statement is rolled back: the tables are as they were (the
\* counters too: ids are told apart here only by being distinct)
Fail(code) ==
  [error |-> code, insertId |-> 0, users |-> users, tasks |-> tasks,
   nextUserId |-> nextUserId, nextTaskId |-> nextTaskId]

\* SELECT 1
Select1(up) ==
  IF ~up THEN Fail("ECONNREFUSED")
  ELSE Ok(users, tasks, nextUserId, nextTaskId, 0)

\* the orders in which ORDER BY created_at DESC may return the rows S: rows of
\* the same second come in any order
Orderings(S) ==
  { s \in [1 .. Cardinality(S) -> S] :
      /\ \A i, j \in DOMAIN s : i # j => s[i] # s[j]
      /\ \A i, j \in DOMAIN s : i < j => s[i].created_at >= s[j].created_at }

\* SELECT * FROM users ORDER BY created_at DESC
UserListings == Orderings(users)

\* the join written ON t.id = u.id
JoinRows_OnTaskId(T, U) ==
  { t @@ ("user_name" :> u.name) @@ ("user_email" :> u.email) :
      <<t, u>> \in { p \in T \X U : p[1].id = p[2].id } }

\* SELECT t.*, u.name as user_name, u.email as user_email
\* FROM tasks t JOIN users u ON t.user_id = u.id
JoinRows(T, U) ==
  { t @@ ("user_name" :> u.name) @@ ("user_email" :> u.email) :
      <<t, u>> \in { p \in T \X U : p[1].user_id = p[2].id } }

TaskListingsOf(T, U) == Orderings(JoinRows(T, U))

TaskListings == TaskListingsOf(tasks, users)

\* the INSERT on a users table whose email column is not UNIQUE
InsertUser_NoUnique(name, email, up) ==
  IF ~up THEN Fail("ECONNREFUSED")
  ELSE IF name = NULL \/ email = NULL THEN Fail("ER_BAD_NULL_ERROR")
  ELSE Ok(users \cup {[id |-> nextUserId, name |-> name, email |-> email,
                       created_at |-> now]},
          tasks, nextUserId + 1, nextTaskId, nextUserId)

\* INSERT INTO users (name, email) VALUES (?, ?)
InsertUser(name, email, up) ==
  IF ~up THEN Fail("ECONNREFUSED")
  ELSE IF name = NULL \/ email = NULL THEN Fail("ER_BAD_NULL_ERROR")
  ELSE IF \E u \in users : u.email = email THEN Fail("ER_DUP_ENTRY")
  ELSE Ok(users \cup {[id |-> nextUserId, name |-> name, email |-> email,
                       created_at |-> now]},
          tasks, nextUserId + 1, nextTaskId, nextUserId)

\* the INSERT on a tasks table without the FOREIGN KEY
InsertTask_NoForeignKey(uid, title, description, status, up) ==
  IF ~up THEN Fail("ECONNREFUSED")
  ELSE IF uid = {} \/ title = NULL THEN Fail("ER_BAD_NULL_ERROR")
  ELSE IF status # NULL /\ status \notin StatusEnum THEN Fail("WARN_DATA_TRUNCATED")
  ELSE Ok(users,
          tasks \cup {[id |-> nextTaskId, user_id |-> CHOOSE n \in uid : TRUE,
                       title |-> title, description |-> description,
                       status |-> status, created_at |-> now,
                       updated_at |-> now]},
          nextUserId, nextTaskId + 1, nextTaskId)

\* INSERT INTO tasks (user_id, title, description, status) VALUES (?, ?, ?, ?)
\* uid is the user_id parameter: {} for NULL, {n} for the number n
InsertTask(uid, title, description, status, up) ==
  IF ~up THEN Fail("ECONNREFUSED")
  ELSE IF uid = {} \/ title = NULL THEN Fail("ER_BAD_NULL_ERROR")
  ELSE IF status # NULL /\ status \notin StatusEnum THEN Fail("WARN_DATA_TRUNCATED")
  ELSE IF ~ \E u \in users : u.id \in uid THEN Fail("ER_NO_REFERENCED_ROW_2")
  ELSE Ok(users,
          tasks \cup {[id |-> nextTaskId, user_id |-> CHOOSE n \in uid : TRUE,
                       title |-> title, description |-> description,
                       status |-> status, created_at |-> now,
                       updated_at |-> now]},
          nextUserId, nextTaskId + 1, nextTaskId)

\* the UPDATE with its values checked before any row is looked for
UpdateTask_ChecksFirst(title, description, status, id, up) ==
  IF ~up THEN Fail("ECONNREFUSED")
  ELSE IF title = NULL THEN Fail("ER_BAD_NULL_ERROR")
  ELSE IF status # NULL /\ status \notin StatusEnum THEN Fail("WARN_DATA_TRUNCATED")
  ELSE IF ~ \E t \in tasks : t.id = id
  THEN Ok(users, tasks, nextUserId, nextTaskId, 0)
  ELSE LET old == CHOOSE t \in tasks : t.id = id
           set == [old EXCEPT !.title = title, !.description = description,
                              !.status = status]
           new == IF set = old THEN old ELSE [set EXCEPT !.updated_at = now]
       IN  Ok(users, (tasks \ {old}) \cup {new}, nextUserId, nextTaskId, 0)

\* the UPDATE on a tasks table whose updated_at has no ON UPDATE clause
UpdateTask_NoOnUpdate(title, description, status, id, up) ==
  IF ~up THEN Fail("ECONNREFUSED")
  ELSE IF ~ \E t \in tasks : t.id = id
  THEN Ok(users, tasks, nextUserId, nextTaskId, 0)
  ELSE IF title = NULL THEN Fail("ER_BAD_NULL_ERROR")
  ELSE IF status # NULL /\ status \notin StatusEnum THEN Fail("WARN_DATA_TRUNCATED")
  ELSE LET old == CHOOSE t \in tasks : t.id = id
           set == [old EXCEPT !.title = title, !.description = description,
                              !.status = status]
       IN  Ok(users, (tasks \ {old}) \cup {set}, nextUserId, nextTaskId, 0)

\* UPDATE tasks SET title = ?, description = ?, status = ? WHERE id = ?
\* updated_at is ON UPDATE CURRENT_TIMESTAMP: set when the row changes
UpdateTask(title, description, status, id, up) ==
  IF ~up THEN Fail("ECONNREFUSED")
  ELSE IF ~ \E t \in tasks : t.id = id
  THEN Ok(users, tasks, nextUserId, nextTaskId, 0)
  ELSE IF title = NULL THEN Fail("ER_BAD_NULL_ERROR")
  ELSE IF status # NULL /\ status \notin StatusEnum THEN Fail("WARN_DATA_TRUNCATED")
  ELSE LET old == CHOOSE t \in tasks : t.id = id
           set == [old EXCEPT !.title = title, !.description = description,
                              !.status = status]
           new == IF set = old THEN old ELSE [set EXCEPT !.updated_at = now]
       IN  Ok(users, (tasks \ {old}) \cup {new}, nextUserId, nextTaskId, 0)

\* DELETE FROM users WHERE id = ?, which cascades to the user's tasks
DeleteTask_FromUsers(id, up) ==
  IF ~up THEN Fail("ECONNREFUSED")
  ELSE Ok({u \in users : u.id # id}, {t \in tasks : t.user_id # id},
          nextUserId, nextTaskId, 0)

\* DELETE FROM tasks WHERE id = ?
DeleteTask(id, up) ==
  IF ~up THEN Fail("ECONNREFUSED")
  ELSE Ok(users, {t \in tasks : t.id # id}, nextUserId, nextTaskId, 0)

\* --------------------------------------------------------- route handlers
\* what a handler does with the outcome r of its statement: the tables as
\* the statement left them and the responses it sends
Handled(r, res) ==
  [error |-> r.error, insertId |-> r.insertId, res |-> res,
   users |-> r.users, tasks |-> r.tasks,
   nextUserId |-> r.nextUserId, nextTaskId |-> r.nextTaskId]

Response(route, status, body) ==
  [route |-> route, status |-> status, body |-> body]

\* a catch that answers 400
Catch_BadRequest(route, r) == <<Response(route, 400, "error" :> r.error)>>

\* catch (error) { res.status(500).json({ error: error.message }) }
Catch(route, r) == <<Response(route, 500, "error" :> r.error)>>

\* status || 'pending'
StatusOrPending(body) ==
  IF Str(body, "status") = NULL THEN "pending" ELSE body.status

\* { id: result.insertId, ...req.body }
Spread(insertId, body) ==
  [k \in {"id"} \cup DOMAIN body |->
     IF k \in DOMAIN body THEN body[k] ELSE insertId]

\* the timestamp of the healthy answer is the process's own clock: left out
GetHealth(up) ==
  LET r == Select1(up)
  IN  Handled(r,
        IF r.error = ""
        THEN <<Response("GET /health", 200,
                 ("status" :> "healthy") @@ ("database" :> "connected"))>>
        ELSE <<Response("GET /health", 500,
                 ("status" :> "unhealthy") @@ ("error" :> r.error))>>)

\* what GET /api/users sends once its statement has settled as r with rows
GetUsersReply(rows, r) ==
  IF r.error = "" THEN <<Response("GET /api/users", 200, rows)>>
  ELSE Catch("GET /api/users", r)

GetUsers(rows, up) ==
  LET r == Select1(up)
  IN  Handled(r, GetUsersReply(rows, r))

\* what POST /api/users sends once its statement has settled as r
PostUsersReply(name, email, r) ==
  IF r.error = ""
  THEN <<Response("POST /api/users", 201,
           [id |-> r.insertId, name |-> name, email |-> email])>>
  ELSE Catch("POST /api/users", r)

PostUsers(body, up) ==
  LET name  == Str(body, "name")
      email == Str(body, "email")
      r     == InsertUser(name, email, up)
  IN  Handled(r, PostUsersReply(name, email, r))

GetTasks(rows, up) ==
  LET r == Select1(up)
  IN  Handled(r,
        IF r.error = "" THEN <<Response("GET /api/tasks", 200, rows)>>
        ELSE Catch("GET /api/tasks", r))

PostTasks(body, up) ==
  LET uid == IF "user_id" \in DOMAIN body THEN {body.user_id} ELSE {}
      r   == InsertTask(uid, Str(body, "title"), Str(body, "description"),
                        StatusOrPending(body), up)
  IN  Handled(r,
        IF r.error = ""
        THEN <<Response("POST /api/tasks", 201, Spread(r.insertId, body))>>
        ELSE Catch("POST /api/tasks", r))

PutTasks(id, body, up) ==
  LET r == UpdateTask(Str(body, "title"), Str(body, "description"),
                      Str(body, "status"), id, up)
  IN  Handled(r,
        IF r.error = ""
        THEN <<Response("PUT /api/tasks/:id", 200,
                 [message |-> "Task updated", id |-> id])>>
        ELSE Catch("PUT /api/tasks/:id", r))

DeleteTasks(id, up) ==
  LET r == DeleteTask(id, up)
  IN  Handled(r,
        IF r.error = ""
        THEN <<Response("DELETE /api/tasks/:id", 200,
                 [message |-> "Task deleted", id |-> id])>>
        ELSE Catch("DELETE /api/tasks/:id", r))

\* ------------------------------------------------------------------ start
Idle == [phase |-> "idle"]

Init ==
  /\ pc = "start"
  /\ schema = {}
  /\ users = {}
  /\ tasks = {}
  /\ nextUserId = 1
  /\ nextTaskId = 1
  /\ now = 0
  /\ sent = <<>>
  /\ conn = [c \in Clients |-> Idle]

\* pool = mysql.createPool(dbConfig); a throw is caught and rethrown
CreatePool ==
  /\ pc = "start"
  /\ \E ok \in BOOLEAN : pc' = IF ok THEN "pool" ELSE "rejected"
  /\ UNCHANGED <<schema, users, tasks, nextUserId, nextTaskId, now, sent, conn>>

\* await pool.query(`CREATE TABLE IF NOT EXISTS users ...`)
CreateUsersTable ==
  /\ pc = "pool"
  /\ \E ok \in BOOLEAN :
       /\ pc' = IF ok THEN "users_ok" ELSE "rejected"
       /\ schema' = IF ok THEN schema \cup {"users"} ELSE schema
  /\ UNCHANGED <<users, tasks, nextUserId, nextTaskId, now, sent, conn>>

\* await pool.query(`CREATE TABLE IF NOT EXISTS tasks ...`)
CreateTasksTable ==
  /\ pc = "users_ok"
  /\ \E ok \in BOOLEAN :
       /\ pc' = IF ok THEN "ready" ELSE "rejected"
       /\ schema' = IF ok THEN schema \cup {"tasks"} ELSE schema
  /\ UNCHANGED <<users, tasks, nextUserId, nextTaskId, now, sent, conn>>

\* app.listen called without waiting for initDatabase
Listen_WithoutWaiting ==
  /\ pc \in {"pool", "users_ok", "ready"}
  /\ pc' = "listening"
  /\ UNCHANGED <<schema, users, tasks, nextUserId, nextTaskId, now, sent, conn>>

\* initDatabase().then(() => { app.listen(PORT, ...) })
Listen ==
  /\ pc = "ready"
  /\ pc' = "listening"
  /\ UNCHANGED <<schema, users, tasks, nextUserId, nextTaskId, now, sent, conn>>

\* .catch(error => { ...; process.exit(1) })
Exit ==
  /\ pc = "rejected"
  /\ pc' = "exited"
  /\ UNCHANGED <<schema, users, tasks, nextUserId, nextTaskId, now, sent, conn>>

\* the store's clock moves on by a second
Tick ==
  /\ now < MaxClock
  /\ now' = now + 1
  /\ UNCHANGED <<pc, schema, users, tasks, nextUserId, nextTaskId, sent, conn>>

\* the client reads what it was sent
ClientReads ==
  /\ sent # <<>>
  /\ sent' = <<>>
  /\ UNCHANGED <<pc, schema, users, tasks, nextUserId, nextTaskId, now, conn>>

\* ---------------------------------------------- requests, one step each
\* A client sends a request once it has read the answer to its last one; the
\* handler's single statement runs in the store and the response goes out.
\* A statement that does not reach the store (up = FALSE) fails whatever its
\* parameters are: one request stands for all of them.
Accepting == pc = "listening" /\ sent = <<>>

\* the tables as the handler run h leaves them, and what it sent
Apply(h) ==
  /\ users' = h.users
  /\ tasks' = h.tasks
  /\ nextUserId' = h.nextUserId
  /\ nextTaskId' = h.nextTaskId
  /\ sent' = h.res
  /\ UNCHANGED <<pc, schema, now, conn>>

Health ==
  /\ Accepting
  /\ \E up \in BOOLEAN : Apply(GetHealth(up))

ListUsers ==
  /\ Accepting
  /\ \E up \in BOOLEAN :
       \E rows \in IF up THEN UserListings ELSE {<<>>} :
         Apply(GetUsers(rows, up))

CreateUser ==
  /\ Accepting
  /\ \E up \in BOOLEAN :
       \E body \in IF up THEN UserBodies ELSE {EmptyObj} :
         Apply(PostUsers(body, up))

ListTasks ==
  /\ Accepting
  /\ \E up \in BOOLEAN :
       \E rows \in IF up THEN TaskListings ELSE {<<>>} :
         Apply(GetTasks(rows, up))

CreateTask ==
  /\ Accepting
  /\ nextTaskId <= MaxTasks
  /\ \E up \in BOOLEAN :
       \E body \in IF up THEN TaskBodies ELSE {EmptyObj} :
         Apply(PostTasks(body, up))

UpdateTaskReq ==
  /\ Accepting
  /\ \E id \in PathIds, up \in BOOLEAN :
       \E body \in IF up THEN UpdateBodies ELSE {EmptyObj} :
         Apply(PutTasks(id, body, up))

DeleteTaskReq ==
  /\ Accepting
  /\ \E id \in PathIds, up \in BOOLEAN : Apply(DeleteTasks(id, up))

Next ==
  \/ CreatePool
  \/ CreateUsersTable
  \/ CreateTasksTable
  \/ Listen
  \/ Exit
  \/ Tick
  \/ ClientReads
  \/ Health
  \/ ListUsers
  \/ CreateUser
  \/ ListTasks
  \/ CreateTask
  \/ UpdateTaskReq
  \/ DeleteTaskReq

Spec == Init /\ [][Next]_vars


\* ------------------------------------- requests in flight (users routes)
\* The users routes with the await of each handler spelled out: a handler
\* runs up to its await (Send), the store executes the statement at some
\* later point (Execute), and the handler's continuation answers (Respond).
\* Two connections hold requests open at the same time.

\* POST /api/users arrives: name and email are read, the INSERT is issued
SendCreateUser ==
  /\ pc = "listening"
  /\ \E c \in Clients, body \in UserBodies :
       /\ conn[c].phase \in {"idle", "answered"}
       /\ conn' = [conn EXCEPT ![c] =
            [phase |-> "awaiting", route |-> "POST /api/users",
             name |-> Str(body, "name"), email |-> Str(body, "email")]]
  /\ UNCHANGED <<pc, schema, users, tasks, nextUserId, nextTaskId, now, sent>>

\* GET /api/users arrives: the SELECT is issued
SendListUsers ==
  /\ pc = "listening"
  /\ \E c \in Clients :
       /\ conn[c].phase \in {"idle", "answered"}
       /\ conn' = [conn EXCEPT ![c] =
            [phase |-> "awaiting", route |-> "GET /api/users",
             name |-> NULL, email |-> NULL]]
  /\ UNCHANGED <<pc, schema, users, tasks, nextUserId, nextTaskId, now, sent>>

\* the store executes the statement of one of the waiting handlers
Execute ==
  \E c \in Clients, up \in BOOLEAN :
    /\ conn[c].phase = "awaiting"
    /\ \E rows \in IF conn[c].route = "GET /api/users" /\ up
                   THEN UserListings ELSE {<<>>} :
         LET q == conn[c]
             r == IF q.route = "POST /api/users"
                  THEN InsertUser(q.name, q.email, up)
                  ELSE Select1(up)
         IN  /\ users' = r.users
             /\ nextUserId' = r.nextUserId
             /\ conn' = [conn EXCEPT ![c] =
                  [phase |-> "settled", route |-> q.route, name |-> q.name,
                   email |-> q.email, rows |-> rows, result |-> r]]
    /\ UNCHANGED <<pc, schema, tasks, nextTaskId, now, sent>>

\* the continuation of a handler whose statement has settled answers
Respond ==
  /\ \E c \in Clients :
       /\ conn[c].phase = "settled"
       /\ LET q == conn[c]
          IN  conn' = [conn EXCEPT ![c] =
                [phase |-> "answered",
                 res |-> IF q.route = "POST /api/users"
                         THEN PostUsersReply(q.name, q.email, q.result)
                         ELSE GetUsersReply(q.rows, q.result)]]
  /\ UNCHANGED <<pc, schema, users, tasks, nextUserId, nextTaskId, now, sent>>

NextInflight ==
  \/ CreatePool
  \/ CreateUsersTable
  \/ CreateTasksTable
  \/ Listen
  \/ Exit
  \/ Tick
  \/ SendCreateUser
  \/ SendListUsers
  \/ Execute
  \/ Respond

SpecInflight == Init /\ [][NextInflight]_vars

\* ------------------------------------------------------------------ claims
\* What a request is answered with is stated for the states in which the
\* process takes a request (Accepting), over every request it can take.
Route(r) == r[1].route
Status(r) == r[1].status
Body(r) == r[1].body

Owner(t) == {u \in users : u.id = t.user_id}

\* C1: no two stored users share an email; a POST /api/users whose email is
\* already stored is answered 500 and leaves the users as they were; of two
\* create-user requests answered 201, no two carry the same email, also when
\* they were in flight together.
C1_EmailUnique ==
  /\ \A u1, u2 \in users : u1.email = u2.email => u1 = u2
  /\ Accepting =>
     \A body \in UserBodies, up \in BOOLEAN :
       (\E u \in users : u.email = Str(body, "email")) =>
         LET h == PostUsers(body, up)
         IN  /\ Len(h.res) = 1
             /\ Status(h.res) = 500
             /\ h.users = users
  /\ \A c1, c2 \in Clients :
       ( /\ c1 # c2
         /\ conn[c1].phase = "answered" /\ conn[c2].phase = "answered"
         /\ Route(conn[c1].res) = "POST /api/users"
         /\ Route(conn[c2].res) = "POST /api/users"
         /\ Status(conn[c1].res) = 201 /\ Status(conn[c2].res) = 201 )
       => Body(conn[c1].res).email # Body(conn[c2].res).email

\* two create-user requests with one email were in flight together: the
\* statement of one succeeded, that of the other hit the UNIQUE key
C1_Witness ==
  \E c1, c2 \in Clients :
    /\ c1 # c2
    /\ conn[c1].phase = "settled" /\ conn[c2].phase = "settled"
    /\ conn[c1].route = "POST /api/users" /\ conn[c2].route = "POST /api/users"
    /\ conn[c1].email = conn[c2].email
    /\ conn[c1].result.error = ""
    /\ conn[c2].result.error = "ER_DUP_ENTRY"
    /\ Cardinality(users) = 1

\* C2: every stored task's user_id is the id of a stored user; a POST
\* /api/tasks whose user_id is missing or matches no stored user is answered
\* 500 and leaves the tasks as they were.
C2_OwnerExists ==
  /\ \A t \in tasks : Owner(t) # {}
  /\ Accepting =>
     \A body \in TaskBodies, up \in BOOLEAN :
       ( \/ "user_id" \notin DOMAIN body
         \/ ~ \E u \in users : u.id = body.user_id )
       => LET h == PostTasks(body, up)
          IN  /\ Len(h.res) = 1
              /\ Status(h.res) = 500
              /\ h.tasks = tasks

\* a create-task request for a user that does not exist was refused while
\* another user does
C2_Witness ==
  /\ sent # <<>>
  /\ Route(sent) = "POST /api/tasks"
  /\ Status(sent) = 500
  /\ Body(sent).error = "ER_NO_REFERENCED_ROW_2"
  /\ users # {}

\* C3: the process is listening, and has handled a request, only after both
\* CREATE TABLE statements succeeded; once pool creation or a statement has
\* failed the process never listens: process.exit(1) is the step open to it
\* and the only one that changes its position.
C3_InitBeforeListen ==
  /\ [](pc = "rejected" => ENABLED Exit)
  /\ [](pc = "listening" => schema = {"users", "tasks"})
  /\ [](pc # "listening" => sent = <<>> /\ users = {} /\ tasks = {})
  /\ [][(pc' = "listening") => (pc = "ready" \/ pc = "listening")]_vars
  /\ [][(pc = "rejected" \/ pc = "exited") =>
          (pc' = "rejected" \/ pc' = "exited")]_vars

\* the second CREATE TABLE failed and the process has exited
C3_Witness == pc = "exited" /\ schema = {"users"}

\* C4: with the store reachable, PUT and DELETE /api/tasks/:id for an id that
\* matches no stored task answer 200 with that id, whatever the body, and
\* leave both tables as they were.
C4_MissingIdNoOp ==
  Accepting =>
  \A id \in PathIds :
    (~ \E t \in tasks : t.id = id) =>
      /\ \A body \in UpdateBodies :
           LET h == PutTasks(id, body, TRUE)
           IN  /\ Len(h.res) = 1
               /\ Status(h.res) = 200
               /\ Body(h.res).id = id
               /\ h.users = users /\ h.tasks = tasks
      /\ LET h == DeleteTasks(id, TRUE)
         IN  /\ Len(h.res) = 1
             /\ Status(h.res) = 200
             /\ Body(h.res).id = id
             /\ h.users = users /\ h.tasks = tasks

\* an update of an id that no stored task has was answered 200 (an UPDATE
\* removes no row, so the id matched no task when the statement ran)
C4_Witness ==
  /\ sent # <<>>
  /\ Route(sent) = "PUT /api/tasks/:id"
  /\ Status(sent) = 200
  /\ tasks # {}
  /\ \A t \in tasks : t.id # Body(sent).id

\* C5: the status of every stored task is one of 'pending', 'in_progress',
\* 'completed', and a create-task request that omits status stores 'pending'.
C5_StatusInEnum ==
  /\ \A t \in tasks : t.status \in StatusEnum
  /\ Accepting =>
     \A body \in TaskBodies :
       "status" \notin DOMAIN body =>
         LET h == PostTasks(body, TRUE)
         IN  \A t \in h.tasks \ tasks : t.status = "pending"

\* C6: a successful POST /api/tasks answers 201 with the submitted fields and,
\* as id, the generated id of the row that the request inserted.
C6_EchoGeneratedId ==
  Accepting =>
  \A body \in TaskBodies :
    LET h == PostTasks(body, TRUE)
    IN  h.error = "" =>
          /\ Status(h.res) = 201
          /\ \A k \in DOMAIN body \ {"id"} : Body(h.res)[k] = body[k]
          /\ Body(h.res).id = h.insertId
          /\ \E t \in h.tasks \ tasks : t.id = Body(h.res).id

\* the row of task id in the table T
Row(T, id) == CHOOSE t \in T : t.id = id

\* the successful updates of a stored pending task that set it completed
PendingToCompleted ==
  { <<t, body>> \in tasks \X UpdateBodies :
      /\ t.status = "pending"
      /\ Str(body, "status") = "completed"
      /\ PutTasks(t.id, body, TRUE).error = "" }

\* every listing of the tables T, U shows task id once, as completed
ListedCompleted(T, U, id) ==
  \A rows \in TaskListingsOf(T, U) :
    /\ Cardinality({i \in DOMAIN rows : rows[i].id = id}) = 1
    /\ \A i \in DOMAIN rows : rows[i].id = id => rows[i].status = "completed"

\* C7 as stated: after a PUT that sets a pending task completed, the task
\* listing shows it completed with updated_at strictly later than created_at.
C7_StrictlyLater ==
  Accepting =>
    \A <<t, body>> \in PendingToCompleted :
      LET h == PutTasks(t.id, body, TRUE)
      IN  /\ ListedCompleted(h.tasks, h.users, t.id)
          /\ Row(h.tasks, t.id).updated_at > Row(h.tasks, t.id).created_at

\* C7 (amended): after a PUT that sets a pending task completed, the task
\* listing shows it completed with updated_at the time of the update, which
\* is not earlier than created_at (and equal to it within the same second);
\* no request changes a task's created_at; a successful update that changes
\* title, description or status sets updated_at to the current time, one that
\* changes none of them leaves the row as it was.
C7_UpdatedAt ==
  /\ [](\A t \in tasks : t.created_at <= t.updated_at /\ t.updated_at <= now)
  /\ [](Accepting =>
          \A <<t, body>> \in PendingToCompleted :
            LET h == PutTasks(t.id, body, TRUE)
            IN  /\ ListedCompleted(h.tasks, h.users, t.id)
                /\ Row(h.tasks, t.id).updated_at = now
                /\ Row(h.tasks, t.id).updated_at >= Row(h.tasks, t.id).created_at)
  /\ [](Accepting =>
          \A t \in tasks, body \in UpdateBodies :
            LET h   == PutTasks(t.id, body, TRUE)
                new == Row(h.tasks, t.id)
                set == [t EXCEPT !.title = Str(body, "title"),
                                 !.description = Str(body, "description"),
                                 !.status = Str(body, "status")]
            IN  h.error = "" =>
                  /\ new = IF set = t THEN t ELSE [set EXCEPT !.updated_at = now])
  /\ [][\A t \in tasks : \A n \in tasks' :
          (n.id = t.id) => (n.created_at = t.created_at)]_vars

\* a task was set completed by an update in a later second than its creation
C7_Witness ==
  /\ sent # <<>>
  /\ Route(sent) = "PUT /api/tasks/:id"
  /\ Status(sent) = 200
  /\ \E t \in tasks :
       /\ t.id = Body(sent).id
       /\ t.status = "completed"
       /\ t.updated_at > t.created_at

\* the handler run h sent one response: 200 or 201 when its statement
\* succeeded; when it failed, 500 with the error message under the key error,
\* the tables and counters being as they were
OneAnswer(h) ==
  /\ Len(h.res) = 1
  /\ Status(h.res) \in {200, 201, 500}
  /\ (h.error = "") <=> (Status(h.res) # 500)
  /\ (h.error # "") =>
       /\ "error" \in DOMAIN Body(h.res)
       /\ Body(h.res).error = h.error
       /\ h.users = users /\ h.tasks = tasks
       /\ h.nextUserId = nextUserId /\ h.nextTaskId = nextTaskId

\* C8: once listening the process stays listening and goes on taking
\* requests; a handler whose statement fails, for the connection or for a
\* constraint, sends exactly one response, with status 500 and the error
\* message under the key error, and leaves the tables as they were; no
\* handler sends a status other than 200 or 201 for anything but a failure.
C8_Errors500 ==
  /\ [](Accepting =>
          \A up \in BOOLEAN :
            /\ OneAnswer(GetHealth(up))
            /\ \A rows \in UserListings : OneAnswer(GetUsers(rows, up))
            /\ \A body \in UserBodies : OneAnswer(PostUsers(body, up))
            /\ \A rows \in TaskListings : OneAnswer(GetTasks(rows, up))
            /\ \A body \in TaskBodies : OneAnswer(PostTasks(body, up))
            /\ \A id \in PathIds, body \in UpdateBodies :
                 OneAnswer(PutTasks(id, body, up))
            /\ \A id \in PathIds : OneAnswer(DeleteTasks(id, up)))
  /\ [][(pc = "listening") => (pc' = "listening")]_vars
  /\ []((pc = "listening" /\ sent = <<>>) => ENABLED Health)

\* an update was refused for a constraint of the store and answered 500
C8_Witness ==
  /\ sent # <<>>
  /\ Route(sent) = "PUT /api/tasks/:id"
  /\ Status(sent) = 500
  /\ Body(sent).error = "ER_BAD_NULL_ERROR"
  /\ pc = "listening"

\* C9: no request updates or removes a user: the users only grow, by one row
\* per step and only by a POST /api/users answered 201, and a task leaves the
\* table only by a DELETE /api/tasks/:id (never by cascade).
C9_UsersOnlyGrow ==
  [][ /\ users \subseteq users'
      /\ (users' # users) =>
           /\ Cardinality(users') = Cardinality(users) + 1
           /\ sent' # <<>>
           /\ Route(sent') = "POST /api/users"
           /\ Status(sent') = 201
      /\ (\E t \in tasks : \A n \in tasks' : n.id # t.id) =>
           /\ sent' # <<>>
           /\ Route(sent') = "DELETE /api/tasks/:id"
    ]_vars

\* a second user was created next to the first
C9_Witness ==
  /\ sent # <<>>
  /\ Route(sent) = "POST /api/users"
  /\ Status(sent) = 201
  /\ Cardinality(users) = 2
  /\ tasks # {}

\* the create-task requests that name a title and a stored user
NamesTitleAndUser(body) ==
  /\ "title" \in DOMAIN body
  /\ "user_id" \in DOMAIN body
  /\ \E u \in users : u.id = body.user_id

\* every listing shows every task in T once, with its owner's name and email,
\* latest creation first
ListsAll(T, U) ==
  \A rows \in TaskListingsOf(T, U) :
    /\ \A t \in T :
         /\ Cardinality({i \in DOMAIN rows : rows[i].id = t.id}) = 1
         /\ \A i \in DOMAIN rows :
              rows[i].id = t.id =>
                /\ \A k \in DOMAIN t : rows[i][k] = t[k]
                /\ \E u \in U : /\ u.id = t.user_id
                                /\ rows[i].user_name = u.name
                                /\ rows[i].user_email = u.email
    /\ \A i, j \in DOMAIN rows :
         i < j => rows[i].created_at >= rows[j].created_at

====
